---- MODULE Spec2Model ----
(***************************************************************************)
(* A model of the FTCNN geometry and geospatial mapping functions:         *)
(*   ftcnn/geometry/polygons.py   flatten_polygons, get_polygon_bboxes,    *)
(*                                get_geom_polygons, create_tile_polygon,  *)
(*                                parse_polygon_str, normalize_polygon     *)
(*   ftcnn/geospacial/mapping.py  map_metadata, map_geometry_to_geotiffs   *)
(*                                                                         *)
(* A behaviour is one call of one function: Init draws the function and    *)
(* its arguments, the actions execute its body (one action per loop        *)
(* iteration for the functions that loop over rows, groups, parts or       *)
(* files), and the call ends with pc = "done" (returned, value in ret) or  *)
(* pc = "raised" (an exception propagated, its type in exc).               *)
(*                                                                         *)
(* Geometry.  A polygon is the set of unit cells <<x, y>> it covers (the   *)
(* cell <<x, y>> is the square [x, x+1] x [y, y+1]) together with the      *)
(* winding of its exterior ring (cw); two cells belong to one simple       *)
(* polygon when they share an edge.  A MultiPolygon is a sequence of       *)
(* polygons.  Any other geometry kind carries only its kind.               *)
(***************************************************************************)
EXTENDS Integers, Sequences, FiniteSets, TLC

VARIABLES
    call,       \* the function being executed
    args,       \* its arguments
    pc,         \* "start", "loop", "done" or "raised"
    i,          \* the position of the running loop (1-based)
    rows,       \* the list `rows` of flatten_polygons / map_metadata / map_geometry_to_geotiffs
    geometry,   \* the list `geometry` of the same functions
    flattened,  \* the accumulator `flattened` of get_geom_polygons
    polygon_local, \* the local `polygon` of normalize_polygon once converted
    ret,        \* the returned list (meaningful when pc = "done")
    exc         \* the exception type raised (meaningful when pc = "raised")

vars == <<call, args, pc, i, rows, geometry, flattened, polygon_local, ret, exc>>

(***************************************************************************)
(* Bounds of the model.                                                    *)
(***************************************************************************)
MaxParts == 3

MaxRows == 3

MaxPoints == 2

MaxFiles == 2

MaxVectors == 2

(***************************************************************************)
(* Sequence helpers.                                                       *)
(***************************************************************************)
Range(s) == {s[k] : k \in DOMAIN s}

InjectiveSeqs(S, n) == {s \in [1..n -> S] : \A a, b \in 1..n : a # b => s[a] # s[b]}

Min(S) == CHOOSE a \in S : \A b \in S : a <= b

Max(S) == CHOOSE a \in S : \A b \in S : a >= b

Abs(a) == IF a < 0 THEN -a ELSE a

(***************************************************************************)
(* Geometry values.                                                        *)
(***************************************************************************)
Square(x, y) == {<<x, y>>, <<x + 1, y>>, <<x, y + 1>>, <<x + 1, y + 1>>}

Polygon(cells, cw) == [kind |-> "Polygon", cells |-> cells, cw |-> cw]

MultiPolygon(gs) == [kind |-> "MultiPolygon", geoms |-> gs]

OtherGeometry(k) == [kind |-> k]

\* shapely.normalize on a polygon: the canonical ring form (exterior clockwise);
\* the region is unchanged.  Geometries without rings are returned as they are.
normalize(g) == IF g.kind = "Polygon" THEN [g EXCEPT !.cw = TRUE] ELSE g

\* geom.bounds: (minx, miny, maxx, maxy) of the covered region.
bounds(g) ==
    <<Min({c[1] : c \in g.cells}), Min({c[2] : c \in g.cells}),
      Max({c[1] : c \in g.cells}) + 1, Max({c[2] : c \in g.cells}) + 1>>

\* shapely.box(minx, miny, maxx, maxy): the rectangle, counter-clockwise by default.
box(b) == Polygon({<<x, y>> : x \in b[1]..(b[3] - 1), y \in b[2]..(b[4] - 1)}, FALSE)

\* a.equals(b): topological equality, blind to the vertex order.
equals(a, b) == a.cells = b.cells

Overlaps(a, b) == a.cells \cap b.cells # {}

SharesEdge(a, b) ==
    \E c \in a.cells, d \in b.cells : Abs(c[1] - d[1]) + Abs(c[2] - d[2]) = 1

(***************************************************************************)
(* get_polygon_bboxes (polygons.py 94-119).  Returns the list of boxes;    *)
(* the unknown-kind case prints a diagnostic and returns the empty list.   *)
(***************************************************************************)
get_polygon_bboxes(geom) ==
    CASE geom.kind = "Polygon" -> <<normalize(box(bounds(geom)))>>
      [] geom.kind = "MultiPolygon" ->
            [k \in DOMAIN geom.geoms |-> normalize(box(bounds(geom.geoms[k])))]
      [] OTHER -> <<>>

\* A variant that treats an unknown kind as get_geom_polygons does (raise).
get_polygon_bboxes_raises_unknown(geom) == geom.kind \notin {"Polygon", "MultiPolygon"}

\* Whether the call raises: the unknown-kind case (line 118) prints and falls
\* through to the return; the function has no raise statement.
get_polygon_bboxes_raises(geom) == FALSE

(***************************************************************************)
(* shapely.coverage_union(a, b) as get_geom_polygons uses it (line 157).   *)
(* The operation assumes a valid coverage (non-overlapping inputs):        *)
(*   - parts that share no edge stay apart: a MultiPolygon of both;        *)
(*   - parts that share an edge dissolve into ONE geometry, which GEOS     *)
(*     returns as a Polygon (not as a one-part MultiPolygon);              *)
(*   - overlapping parts are outside the operation's contract: the result  *)
(*     is whatever the build produces, here any of: a GEOS error, the two  *)
(*     inputs returned unmerged, or the dissolved Polygon.                 *)
(***************************************************************************)
coverage_union(a, b) ==
    IF Overlaps(a, b)
    THEN {[kind |-> "GEOSException"],
          MultiPolygon(<<a, b>>),
          Polygon(a.cells \cup b.cells, TRUE)}
    ELSE IF SharesEdge(a, b)
    THEN {Polygon(a.cells \cup b.cells, TRUE)}
    ELSE {MultiPolygon(<<a, b>>)}

(***************************************************************************)
(* get_geom_polygons (polygons.py 122-174).                                *)
(***************************************************************************)
\* Lines 158-165: the first part of the union that equals neither the accumulated
\* shape nor the candidate; 0 when every part equals one of them.
FirstGenuine(union, flat, polygon) ==
    LET hits == {k \in DOMAIN union.geoms :
                    ~(equals(union.geoms[k], flat) \/ equals(union.geoms[k], polygon))}
    IN IF hits = {} THEN 0 ELSE Min(hits)

\* Lines 155-169 for one candidate `polygon` from position k of the accumulator on:
\* the set of possible outcomes [flattened, exc], one per result coverage_union
\* can give.  union.geoms exists on multi-part geometries only: a Polygon result
\* raises AttributeError at line 158.
RECURSIVE ScanFlattened(_, _, _)
ScanFlattened(fl, k, polygon) ==
    IF k > Len(fl)
    THEN {[flattened |-> Append(fl, polygon), exc |-> ""]}
    ELSE UNION {
        IF union.kind = "GEOSException"
        THEN {[flattened |-> fl, exc |-> "GEOSException"]}
        ELSE IF union.kind # "MultiPolygon"
        THEN {[flattened |-> fl, exc |-> "AttributeError"]}
        ELSE IF FirstGenuine(union, fl[k], polygon) # 0
        THEN {[flattened |-> [fl EXCEPT ![k] =
                                union.geoms[FirstGenuine(union, fl[k], polygon)]],
               exc |-> ""]}
        ELSE ScanFlattened(fl, k + 1, polygon)
        : union \in coverage_union(fl[k], polygon)}

\* Lines 152-154 and 155-169: one iteration of the loop over the normalized parts.
FlattenCandidate(fl, polygon) ==
    IF Len(fl) = 0
    THEN {[flattened |-> <<polygon>>, exc |-> ""]}
    ELSE ScanFlattened(fl, 1, polygon)

\* Lines 141-148 and 172-173: the match on the geometry kind.
GeomPolygonsStart ==
    /\ call = "get_geom_polygons"
    /\ pc = "start"
    /\ CASE args.geom.kind = "Polygon" ->
                /\ ret' = <<normalize(args.geom)>>
                /\ pc' = "done"
                /\ UNCHANGED <<exc, flattened, i>>
         [] args.geom.kind = "MultiPolygon" /\ ~args.flatten ->
                /\ ret' = [k \in DOMAIN args.geom.geoms |-> normalize(args.geom.geoms[k])]
                /\ pc' = "done"
                /\ UNCHANGED <<exc, flattened, i>>
         [] args.geom.kind = "MultiPolygon" /\ args.flatten ->
                /\ flattened' = <<>>
                /\ i' = 1
                /\ pc' = "loop"
                /\ UNCHANGED <<exc, ret>>
         [] OTHER ->
                /\ exc' = "ValueError"
                /\ pc' = "raised"
                /\ UNCHANGED <<ret, flattened, i>>
    /\ UNCHANGED <<call, args, rows, geometry, polygon_local>>

\* Lines 151-169: the loop body for the i-th part.
GeomPolygonsPart ==
    /\ call = "get_geom_polygons"
    /\ pc = "loop"
    /\ i <= Len(args.geom.geoms)
    /\ \E out \in FlattenCandidate(flattened, normalize(args.geom.geoms[i])) :
          /\ flattened' = out.flattened
          /\ exc' = out.exc
          /\ pc' = IF out.exc = "" THEN "loop" ELSE "raised"
    /\ i' = i + 1
    /\ UNCHANGED <<call, args, rows, geometry, polygon_local, ret>>

\* Lines 170 and 174: polygons.extend(flattened); return polygons.
GeomPolygonsReturn ==
    /\ call = "get_geom_polygons"
    /\ pc = "loop"
    /\ i > Len(args.geom.geoms)
    /\ ret' = flattened
    /\ pc' = "done"
    /\ UNCHANGED <<call, args, i, rows, geometry, flattened, polygon_local, exc>>

\* get_polygon_bboxes as a call.
PolygonBboxes ==
    /\ call = "get_polygon_bboxes"
    /\ pc = "start"
    /\ IF get_polygon_bboxes_raises(args.geom)
       THEN /\ exc' = "ValueError"
            /\ pc' = "raised"
            /\ UNCHANGED ret
       ELSE /\ ret' = get_polygon_bboxes(args.geom)
            /\ pc' = "done"
            /\ UNCHANGED exc
    /\ UNCHANGED <<call, args, i, rows, geometry, flattened, polygon_local>>

(***************************************************************************)
(* flatten_polygons (polygons.py 12-57).                                   *)
(***************************************************************************)
Adjacent(c, d) == Abs(c[1] - d[1]) + Abs(c[2] - d[2]) = 1

\* The edge-connected part of `cells` around the cells S.
RECURSIVE Grow(_, _)
Grow(S, cells) ==
    LET more == {d \in cells \ S : \E c \in S : Adjacent(c, d)}
    IN IF more = {} THEN S ELSE Grow(S \cup more, cells)

Components(cells) == {Grow({c}, cells) : c \in cells}

\* The region a row's geometry covers.
CellsOf(g) ==
    CASE g.kind = "Polygon" -> g.cells
      [] g.kind = "MultiPolygon" -> UNION {g.geoms[k].cells : k \in DOMAIN g.geoms}
      [] OTHER -> {}

\* shapely.unary_union(group.geometry) (line 40): the dissolved region, a Polygon
\* when it is connected and a MultiPolygon otherwise.  The order of the parts of
\* the result is the library's, not the input's: every order is possible.
unary_union(geoms) ==
    LET comps == Components(UNION {CellsOf(geoms[k]) : k \in DOMAIN geoms})
        n == Cardinality(comps)
    IN IF n = 1
       THEN {Polygon(CHOOSE c \in comps : TRUE, FALSE)}
       ELSE {MultiPolygon([k \in 1..n |-> Polygon(order[k], FALSE)]) :
                order \in InjectiveSeqs(comps, n)}

\* gdf_src.groupby(group_by, sort=False) (line 39): the keys in order of first
\* encounter, and each key's members in the order of the collection.
RECURSIVE GroupKeys(_)
GroupKeys(gdf) ==
    IF gdf = <<>> THEN <<>>
    ELSE LET front == GroupKeys(SubSeq(gdf, 1, Len(gdf) - 1))
             key == gdf[Len(gdf)].key
         IN IF key \in Range(front) THEN front ELSE Append(front, key)

GroupMembers(gdf, key) == SelectSeq(gdf, LAMBDA r : r.key = key)

\* group.iloc[k].drop(geometry_column).to_dict() (lines 44, 51): k is 0-based.
TemplateRow(group, k) == [key |-> group[k + 1].key, id |-> group[k + 1].id]

\* Lines 45-48 for one part: `row` is ONE dict, updated and appended once per box
\* of the whole MultiPolygon, so every appended entry is that same dict and shows
\* the bbox written last; the geometry appended each time is the whole `polygon`.
RowsOfPart(row, polygon) ==
    LET boxes == get_polygon_bboxes(polygon)
    IN [b \in DOMAIN boxes |-> [attrs |-> row, bbox |-> boxes[Len(boxes)]]]

GeometryOfPart(polygon) ==
    [b \in DOMAIN get_polygon_bboxes(polygon) |-> polygon]

\* Lines 42-48: the rows of parts 0..n-1 of a MultiPolygon union.
RECURSIVE RowsOfParts(_, _, _)
RowsOfParts(group, polygon, n) ==
    IF n = 0 THEN <<>>
    ELSE RowsOfParts(group, polygon, n - 1)
            \o RowsOfPart(TemplateRow(group, n - 1), polygon)

RECURSIVE GeometryOfParts(_, _)
GeometryOfParts(polygon, n) ==
    IF n = 0 THEN <<>>
    ELSE GeometryOfParts(polygon, n - 1) \o GeometryOfPart(polygon)

\* Lines 39-55: the loop body for the i-th group.  group.iloc[k] raises
\* IndexError as soon as the union has more parts than the group has members.
FlattenGroup ==
    /\ call = "flatten_polygons"
    /\ pc = "loop"
    /\ i <= Len(GroupKeys(args.gdf_src))
    /\ LET group == GroupMembers(args.gdf_src, GroupKeys(args.gdf_src)[i])
       IN \E polygon \in unary_union([k \in DOMAIN group |-> group[k].geometry]) :
            IF polygon.kind = "MultiPolygon"
            THEN IF Len(polygon.geoms) > Len(group)
                 THEN /\ exc' = "IndexError"
                      /\ pc' = "raised"
                      /\ UNCHANGED <<rows, geometry>>
                 ELSE /\ rows' = rows \o RowsOfParts(group, polygon, Len(polygon.geoms))
                      /\ geometry' = geometry \o GeometryOfParts(polygon, Len(polygon.geoms))
                      /\ UNCHANGED <<exc, pc>>
            ELSE /\ rows' = rows \o RowsOfPart(TemplateRow(group, 0), normalize(polygon))
                 /\ geometry' = geometry \o GeometryOfPart(normalize(polygon))
                 /\ UNCHANGED <<exc, pc>>
    /\ i' = i + 1
    /\ UNCHANGED <<call, args, flattened, polygon_local, ret>>

\* Lines 36-37: the empty lists.
FlattenStart ==
    /\ call = "flatten_polygons"
    /\ pc = "start"
    /\ rows' = <<>>
    /\ geometry' = <<>>
    /\ i' = 1
    /\ pc' = "loop"
    /\ UNCHANGED <<call, args, flattened, polygon_local, ret, exc>>

\* Line 57: the GeoDataFrame of the rows with the geometry list as its geometry.
FlattenReturn ==
    /\ call = "flatten_polygons"
    /\ pc = "loop"
    /\ i > Len(GroupKeys(args.gdf_src))
    /\ ret' = [k \in DOMAIN rows |->
                [attrs |-> rows[k].attrs, bbox |-> rows[k].bbox, geometry |-> geometry[k]]]
    /\ pc' = "done"
    /\ UNCHANGED <<call, args, i, rows, geometry, flattened, polygon_local, exc>>

(***************************************************************************)
(* parse_polygon_str (polygons.py 219-261).  A string is the sequence of   *)
(* its characters; a float is the exact decimal [num, scale] standing for  *)
(* num / 10^scale, without trailing zeros in the fraction.                 *)
(***************************************************************************)
Digits == <<"0", "1", "2", "3", "4", "5", "6", "7", "8", "9">>

\* str.isdigit on one character.
isdigit(c) == c \in Range(Digits)

DigitValue(c) == (CHOOSE k \in DOMAIN Digits : Digits[k] = c) - 1

\* polygon_str[a : b] with 0-based a and exclusive b.
Slice(str, a, b) == SubSeq(str, a + 1, b)

\* Lines 241-250: the loop moving `start` and `end` inward (0-based positions)
\* until both stand on a digit or they meet.
RECURSIVE StripLoop(_, _, _)
StripLoop(str, start, end) ==
    IF /\ start < end
       /\ start < Len(str)
       /\ end >= 0
       /\ ~(isdigit(str[start + 1]) /\ isdigit(str[end + 1]))
    THEN StripLoop(str,
                   IF isdigit(str[start + 1]) THEN start ELSE start + 1,
                   IF isdigit(str[end + 1]) THEN end ELSE end - 1)
    ELSE <<start, end>>

\* Lines 238-253.
Stripped(str) ==
    LET se == StripLoop(str, 0, Len(str) - 1)
    IN IF se[1] < Len(str) /\ se[2] >= 0 THEN Slice(str, se[1], se[2] + 1) ELSE str

\* str.split(", ") (line 255): the pieces between the separators, left to right.
RECURSIVE SplitCommaSpace(_, _)
SplitCommaSpace(str, piece) ==
    IF str = <<>> THEN <<piece>>
    ELSE IF Len(str) >= 2 /\ str[1] = "," /\ str[2] = " "
    THEN <<piece>> \o SplitCommaSpace(SubSeq(str, 3, Len(str)), <<>>)
    ELSE SplitCommaSpace(Tail(str), Append(piece, str[1]))

\* point.replace(" 0", "") (line 257): every occurrence, left to right, whatever
\* follows the zero.
RECURSIVE RemoveSpaceZero(_)
RemoveSpaceZero(str) ==
    IF str = <<>> THEN <<>>
    ELSE IF Len(str) >= 2 /\ str[1] = " " /\ str[2] = "0"
    THEN RemoveSpaceZero(SubSeq(str, 3, Len(str)))
    ELSE <<str[1]>> \o RemoveSpaceZero(Tail(str))

\* .replace("(", "").replace(")", "") (line 257).
RemoveParens(str) == SelectSeq(str, LAMBDA c : c \notin {"(", ")"})

\* point.split() (line 258): the maximal runs of non-blank characters.
RECURSIVE SplitBlank(_, _)
SplitBlank(str, field) ==
    IF str = <<>> THEN (IF field = <<>> THEN <<>> ELSE <<field>>)
    ELSE IF str[1] = " "
    THEN (IF field = <<>> THEN <<>> ELSE <<field>>) \o SplitBlank(Tail(str), <<>>)
    ELSE SplitBlank(Tail(str), Append(field, str[1]))

\* float(text) (line 259) on the characters of the model (digits, ".", "-"):
\* an optional sign, then digits with at most one point and at least one digit.
Unsigned(text) == IF text # <<>> /\ text[1] = "-" THEN Tail(text) ELSE text

IsFloat(text) ==
    LET u == Unsigned(text)
    IN /\ \A k \in DOMAIN u : isdigit(u[k]) \/ u[k] = "."
       /\ Cardinality({k \in DOMAIN u : u[k] = "."}) <= 1
       /\ \E k \in DOMAIN u : isdigit(u[k])

RECURSIVE DigitsValue(_)
DigitsValue(ds) ==
    IF ds = <<>> THEN 0
    ELSE 10 * DigitsValue(SubSeq(ds, 1, Len(ds) - 1)) + DigitValue(ds[Len(ds)])

RECURSIVE Reduced(_)
Reduced(f) ==
    IF f.scale > 0 /\ f.num % 10 = 0
    THEN Reduced([num |-> f.num \div 10, scale |-> f.scale - 1])
    ELSE f

float(text) ==
    LET u == Unsigned(text)
        dot == {k \in DOMAIN u : u[k] = "."}
        magnitude == DigitsValue(SelectSeq(u, isdigit))
    IN Reduced([num |-> IF u # text THEN 0 - magnitude ELSE magnitude,
                scale |-> IF dot = {} THEN 0 ELSE Len(u) - Min(dot)])

\* Lines 257-259 for one point: the pair, or the ValueError of the unpacking
\* (not two fields) or of float (a field that is no number).
ParsePoint(point) ==
    LET fields == SplitBlank(RemoveParens(RemoveSpaceZero(point)), <<>>)
    IN IF Len(fields) = 2 /\ IsFloat(fields[1]) /\ IsFloat(fields[2])
       THEN [ok |-> TRUE, pair |-> <<float(fields[1]), float(fields[2])>>]
       ELSE [ok |-> FALSE, pair |-> <<>>]

\* Lines 238-261.
parse_polygon_str(polygon_str) ==
    LET points == SplitCommaSpace(Stripped(polygon_str), <<>>)
    IN IF \A k \in DOMAIN points : ParsePoint(points[k]).ok
       THEN [ok |-> TRUE, parsed |-> [k \in DOMAIN points |-> ParsePoint(points[k]).pair]]
       ELSE [ok |-> FALSE, parsed |-> <<>>]

ParsePolygonStr ==
    /\ call = "parse_polygon_str"
    /\ pc = "start"
    /\ IF parse_polygon_str(args.polygon_str).ok
       THEN /\ ret' = parse_polygon_str(args.polygon_str).parsed
            /\ pc' = "done"
            /\ UNCHANGED exc
       ELSE /\ exc' = "ValueError"
            /\ pc' = "raised"
            /\ UNCHANGED ret
    /\ UNCHANGED <<call, args, i, rows, geometry, flattened, polygon_local>>

(***************************************************************************)
(* normalize_polygon (polygons.py 264-304).  The argument is a Polygon, a  *)
(* list (of tuples, or flat: of numbers) or a str.                         *)
(***************************************************************************)
\* Lines 296-298: [(polygon[i], polygon[i + 1]) for i in range(len(polygon) - 1)],
\* one pair per position but the last.
FlatPairs(flat) ==
    [k \in 1..(IF Len(flat) = 0 THEN 0 ELSE Len(flat) - 1) |-> <<flat[k], flat[k + 1]>>]

\* polygon.simplify(0.002, preserve_topology=True) (line 303): vertices closer
\* than the tolerance to the simplified outline are dropped; the outline of a
\* polygon of unit cells has none, its region and winding stay.
simplify(g) == g

\* Lines 293-300: the conversion of an argument that is no Polygon.
NormalizePolygonConvert ==
    /\ call = "normalize_polygon"
    /\ pc = "start"
    /\ CASE args.polygon.kind = "Polygon" ->
                /\ polygon_local' = args.polygon
                /\ pc' = "converted"
                /\ UNCHANGED exc
         [] args.polygon.kind = "list" /\ args.polygon.items = <<>> ->
                \* polygon[0] on the empty list (line 295)
                /\ exc' = "IndexError"
                /\ pc' = "raised"
                /\ UNCHANGED polygon_local
         [] args.polygon.kind = "list" /\ args.polygon.items # <<>> ->
                /\ polygon_local' = IF args.polygon.of = "tuple"
                              THEN args.polygon.items
                              ELSE FlatPairs(args.polygon.items)
                /\ pc' = "converted"
                /\ UNCHANGED exc
         [] args.polygon.kind = "str" ->
                IF parse_polygon_str(args.polygon.chars).ok
                THEN /\ polygon_local' = parse_polygon_str(args.polygon.chars).parsed
                     /\ pc' = "converted"
                     /\ UNCHANGED exc
                ELSE /\ exc' = "ValueError"
                     /\ pc' = "raised"
                     /\ UNCHANGED polygon_local
    /\ UNCHANGED <<call, args, i, rows, geometry, flattened, ret>>

\* Lines 301-303.  shapely.normalize takes geometries: handed the list of pairs
\* of line 301 it raises TypeError, so no Polygon is ever built from a list or a
\* str; a Polygon argument skips line 301 and is simplified and normalized.
NormalizePolygonReturn ==
    /\ call = "normalize_polygon"
    /\ pc = "converted"
    /\ IF args.polygon.kind = "Polygon"
       THEN /\ ret' = <<normalize(simplify(polygon_local))>>
            /\ pc' = "done"
            /\ UNCHANGED exc
       ELSE /\ exc' = "TypeError"
            /\ pc' = "raised"
            /\ UNCHANGED ret
    /\ UNCHANGED <<call, args, i, rows, geometry, flattened, polygon_local>>

(***************************************************************************)
(* create_tile_polygon (polygons.py 184-216).  An affine transform is its  *)
(* six coefficients [a, b, c, d, e, f]; a window is [col_off, row_off,     *)
(* width, height].  Coefficients are integers here: rounding of floating   *)
(* point products is not modelled.                                         *)
(***************************************************************************)
Affine(a, b, c, d, e, f) == [a |-> a, b |-> b, c |-> c, d |-> d, e |-> e, f |-> f]

\* transform * (x, y): pixel (col, row) to ground (x, y).
AffineApply(t, xy) == <<t.a * xy[1] + t.b * xy[2] + t.c, t.d * xy[1] + t.e * xy[2] + t.f>>

\* src.window_transform(window): the dataset transform moved to the window's
\* upper left pixel.
window_transform(transform, window) ==
    Affine(transform.a, transform.b,
           AffineApply(transform, <<window.col_off, window.row_off>>)[1],
           transform.d, transform.e,
           AffineApply(transform, <<window.col_off, window.row_off>>)[2])

\* The corners in another order: bottom-left before bottom-right.
TileRingCrossed(tile_transform, width, height) ==
    <<AffineApply(tile_transform, <<0, 0>>),
      AffineApply(tile_transform, <<width, 0>>),
      AffineApply(tile_transform, <<0, height>>),
      AffineApply(tile_transform, <<width, height>>),
      AffineApply(tile_transform, <<0, 0>>)>>

\* Lines 207-215: the ring handed to Polygon, which keeps the coordinates as given.
TileRing(tile_transform, width, height) ==
    <<AffineApply(tile_transform, <<0, 0>>),
      AffineApply(tile_transform, <<width, 0>>),
      AffineApply(tile_transform, <<width, height>>),
      AffineApply(tile_transform, <<0, height>>),
      AffineApply(tile_transform, <<0, 0>>)>>

\* Lines 203-216.
create_tile_polygon(src, tile_window) ==
    [kind |-> "Polygon",
     ring |-> TileRing(window_transform(src.transform, tile_window),
                       tile_window.width, tile_window.height)]

CreateTilePolygon ==
    /\ call = "create_tile_polygon"
    /\ pc = "start"
    /\ ret' = <<create_tile_polygon(args.src, args.tile_window)>>
    /\ pc' = "done"
    /\ UNCHANGED <<call, args, i, rows, geometry, flattened, polygon_local, exc>>

(***************************************************************************)
(* map_geometry_to_geotiffs (mapping.py 114-192).  args.gdf is the vector  *)
(* collection (rows with a filename and a geometry, None allowed);         *)
(* args.files is what collect_files_with_suffix yields for img_dir: per    *)
(* file its stem, whether rasterio can open it, and the opened dataset's   *)
(* width, height and transform.                                            *)
(***************************************************************************)
None == [kind |-> "None"]

\* os.path.splitext(filename)[0] (line 140): the name up to its last dot.
splitext_stem(filename) ==
    LET dots == {k \in DOMAIN filename : filename[k] = "."}
    IN IF dots = {} THEN filename ELSE SubSeq(filename, 1, Max(dots) - 1)

\* a in b, for strings.
IsSubstring(a, b) ==
    \E k \in 0..(Len(b) - Len(a)) : SubSeq(b, k + 1, k + Len(a)) = a

\* gdf["filename"].unique() with the extension cut off (lines 139-141).
orig_stems(gdf) == {splitext_stem(gdf[k].filename) : k \in DOMAIN gdf}

\* Lines 144-148: the beginning of the stem, as long as the name, occurs in the name.
compare_stem(stem, names) ==
    \E name \in names :
        IsSubstring(SubSeq(stem, 1, IF Len(name) < Len(stem) THEN Len(name) ELSE Len(stem)),
                    name)

\* Lines 150-154: the files that pass the stem test, in the order they are found.
image_paths(files, gdf) == SelectSeq(files, LAMBDA f : compare_stem(f.stem, orig_stems(gdf)))

\* The region inside a ring of an axis-parallel footprint.
RingCells(ring) ==
    {<<x, y>> : x \in Min({pt[1] : pt \in Range(ring)})..(Max({pt[1] : pt \in Range(ring)}) - 1),
                y \in Min({pt[2] : pt \in Range(ring)})..(Max({pt[2] : pt \in Range(ring)}) - 1)}

\* The places where two regions meet without sharing area (an edge or a corner).
Contacts(A, B) ==
    {<<c, d>> \in A \X B : Abs(c[1] - d[1]) <= 1 /\ Abs(c[2] - d[2]) <= 1}

\* gdf.intersects(tile_polygon) for one row (line 169): shared area or a shared
\* boundary point; a missing geometry intersects nothing.
intersects(g, tile_cells) ==
    /\ g.kind # "None"
    /\ \/ CellsOf(g) \cap tile_cells # {}
       \/ Contacts(CellsOf(g), tile_cells) # {}

\* polygon_row["geometry"].intersection(tile_polygon) (line 181) of a row that
\* intersects: the shared area (a Polygon, or a MultiPolygon when it falls in
\* several pieces), else the shared boundary (a LineString or a Point).
intersection(g, tile_cells) ==
    LET shared == CellsOf(g) \cap tile_cells
        comps == Components(shared)
        seq == CHOOSE q \in InjectiveSeqs(comps, Cardinality(comps)) : TRUE
    IN IF shared # {}
       THEN IF Cardinality(comps) = 1
            THEN Polygon(shared, TRUE)
            ELSE MultiPolygon([k \in DOMAIN seq |-> Polygon(seq[k], TRUE)])
       ELSE [kind |-> IF \E ct \in Contacts(CellsOf(g), tile_cells) :
                             Abs(ct[1][1] - ct[2][1]) + Abs(ct[1][2] - ct[2][2]) = 1
                      THEN "LineString" ELSE "Point",
             at |-> Contacts(CellsOf(g), tile_cells)]

\* Lines 171-176.
TileRow(f) ==
    [filename |-> f.stem \o <<".", "t", "i", "f">>,
     path |-> <<"img_dir", f.stem \o <<".", "t", "i", "f">>>>,
     width |-> f.width,
     height |-> f.height]

\* Lines 178-182: one row per intersecting record, in the order of the collection.
IntersectionGeometry(gdf, tile_cells) ==
    LET hit == SelectSeq(gdf, LAMBDA r : intersects(r.geometry, tile_cells))
    IN [k \in DOMAIN hit |-> intersection(hit[k].geometry, tile_cells)]

\* A variant without the else branch of lines 183-186.
TileGeometryNoPlaceholder(gdf, tile_cells) == IntersectionGeometry(gdf, tile_cells)

\* Lines 178-186: the geometries appended for one tile; the empty Polygon when
\* nothing intersects.
TileGeometry(gdf, tile_cells) ==
    IF IntersectionGeometry(gdf, tile_cells) # <<>>
    THEN IntersectionGeometry(gdf, tile_cells)
    ELSE <<Polygon({}, TRUE)>>

\* GeoDataFrame.explode() (line 190): one row per part of a multi-part geometry;
\* a single geometry, the empty Polygon included, is one part.
RECURSIVE explode(_)
explode(frame) ==
    IF frame = <<>> THEN <<>>
    ELSE LET r == frame[1]
         IN (IF r.geometry.kind = "MultiPolygon"
             THEN [k \in DOMAIN r.geometry.geoms |->
                     [row |-> r.row, geometry |-> r.geometry.geoms[k]]]
             ELSE <<r>>)
            \o explode(Tail(frame))

\* DataFrame.drop_duplicates() (line 191): of equal rows the first is kept.
RECURSIVE drop_duplicates(_)
drop_duplicates(frame) ==
    IF frame = <<>> THEN <<>>
    ELSE LET front == drop_duplicates(SubSeq(frame, 1, Len(frame) - 1))
             last == frame[Len(frame)]
         IN IF \E k \in DOMAIN front : front[k] = last THEN front ELSE Append(front, last)

\* Lines 128-154.
MapGeometryStart ==
    /\ call = "map_geometry_to_geotiffs"
    /\ pc = "start"
    /\ rows' = <<>>
    /\ geometry' = <<>>
    /\ i' = 1
    /\ pc' = "loop"
    /\ UNCHANGED <<call, args, flattened, polygon_local, ret, exc>>

\* Lines 156-186 for the i-th surviving file, when rasterio.open succeeds.
MapGeometryTile ==
    /\ call = "map_geometry_to_geotiffs"
    /\ pc = "loop"
    /\ i <= Len(image_paths(args.files, args.gdf))
    /\ LET src == image_paths(args.files, args.gdf)[i]
           tile_window == [col_off |-> 0, row_off |-> 0,
                           width |-> src.width, height |-> src.height]
           tile_polygon == create_tile_polygon(src, tile_window)
           added == TileGeometry(args.gdf, RingCells(tile_polygon.ring))
       IN /\ src.openable
          /\ geometry' = geometry \o added
          /\ rows' = rows \o [k \in DOMAIN added |-> TileRow(src)]
    /\ i' = i + 1
    /\ UNCHANGED <<call, args, pc, flattened, polygon_local, ret, exc>>

\* Line 161 when rasterio.open raises: nothing catches it, the call ends.
MapGeometryOpenFails ==
    /\ call = "map_geometry_to_geotiffs"
    /\ pc = "loop"
    /\ i <= Len(image_paths(args.files, args.gdf))
    /\ ~image_paths(args.files, args.gdf)[i].openable
    /\ exc' = "RasterioIOError"
    /\ pc' = "raised"
    /\ UNCHANGED <<call, args, i, rows, geometry, flattened, polygon_local, ret>>

\* Lines 188-192.
MapGeometryReturn ==
    /\ call = "map_geometry_to_geotiffs"
    /\ pc = "loop"
    /\ i > Len(image_paths(args.files, args.gdf))
    /\ ret' = drop_duplicates(explode(
                [k \in DOMAIN rows |-> [row |-> rows[k], geometry |-> geometry[k]]]))
    /\ pc' = "done"
    /\ UNCHANGED <<call, args, i, rows, geometry, flattened, polygon_local, exc>>

(***************************************************************************)
(* map_metadata (mapping.py 18-111).  args.gdf_src is the source           *)
(* collection: its column names and its rows (each with the filename       *)
(* parse_filename derives from it); args.disk is the set of filenames      *)
(* present in images_dir; args.preserve_fields is None, a dict or a list   *)
(* of column names and dicts.  A dict is the sequence of its               *)
(* <<new_name, old_name>> items in insertion order.                        *)
(***************************************************************************)
\* dict[key] = value: an existing key keeps its place.
DictSet(dict, key, value) ==
    IF \E k \in DOMAIN dict : dict[k][1] = key
    THEN [k \in DOMAIN dict |-> IF dict[k][1] = key THEN <<key, value>> ELSE dict[k]]
    ELSE Append(dict, <<key, value>>)

RECURSIVE DictUpdate(_, _)
DictUpdate(dict, items) ==
    IF items = <<>> THEN dict
    ELSE DictUpdate(DictSet(dict, items[1][1], items[1][2]), Tail(items))

\* Lines 58-62: the items of the list, one after the other.
RECURSIVE FieldMapOfList(_, _)
FieldMapOfList(dict, list) ==
    IF list = <<>> THEN dict
    ELSE FieldMapOfList(
            IF list[1].type = "str"
            THEN DictSet(dict, list[1].name, list[1].name)
            ELSE DictUpdate(dict, list[1].items),
            Tail(list))

\* Lines 53-62.
field_map(preserve_fields) ==
    CASE preserve_fields.type = "dict" -> preserve_fields.items
      [] preserve_fields.type = "list" -> FieldMapOfList(<<>>, preserve_fields.list)
      [] OTHER -> <<>>

\* images_dir / filename (line 68) is a Path; str(path) (line 89) is a str.  A str
\* and a Path never compare equal.
PathOf(filename) == [type |-> "Path", value |-> <<"images_dir", filename>>]

str(path) == [type |-> "str", value |-> path.value]

\* Line 72: any(r["path"] == path for r in rows).
path_seen(rws, path) == \E k \in DOMAIN rws : rws[k].path = path

\* Lines 96-100: a preserved field whose source column the row does not have.
missing_column(fm, columns) == \E k \in DOMAIN fm : fm[k][2] \notin columns

\* Lines 75-84: the (width, height) of the opened image.
ImageSize(filename) == IF filename = "y.tif" THEN <<64, 32>> ELSE <<16, 16>>

\* Lines 87-101.
Metadata(row, filename, path, fm) ==
    [filename |-> filename,
     path |-> str(path),
     width |-> ImageSize(filename)[1],
     height |-> ImageSize(filename)[2],
     bbox |-> IF "bbox" \in DOMAIN row.values THEN row.values["bbox"] ELSE "None",
     preserved |-> [k \in DOMAIN fm |-> <<fm[k][1], row.values[fm[k][2]]>>]]

\* Lines 47-64.
MapMetadataStart ==
    /\ call = "map_metadata"
    /\ pc = "start"
    /\ rows' = <<>>
    /\ geometry' = <<>>
    /\ i' = 1
    /\ pc' = "loop"
    /\ UNCHANGED <<call, args, flattened, polygon_local, ret, exc>>

\* Lines 66-104 for the i-th row.
MapMetadataRow ==
    /\ call = "map_metadata"
    /\ pc = "loop"
    /\ i <= Len(args.gdf_src.rows)
    /\ LET row == args.gdf_src.rows[i]
           filename == row.image
           path == PathOf(filename)
           fm == field_map(args.preserve_fields)
       IN IF filename \in args.disk /\ ~path_seen(rows, path)
          THEN IF missing_column(fm, args.gdf_src.columns)
               THEN /\ exc' = "KeyError"
                    /\ pc' = "raised"
                    /\ UNCHANGED <<rows, geometry>>
               ELSE /\ rows' = Append(rows, Metadata(row, filename, path, fm))
                    /\ geometry' = Append(geometry, row.geometry)
                    /\ UNCHANGED <<exc, pc>>
          ELSE UNCHANGED <<rows, geometry, exc, pc>>
    /\ i' = i + 1
    /\ UNCHANGED <<call, args, flattened, polygon_local, ret>>

\* Lines 106-111.
MapMetadataReturn ==
    /\ call = "map_metadata"
    /\ pc = "loop"
    /\ i > Len(args.gdf_src.rows)
    /\ ret' = [k \in DOMAIN rows |-> [row |-> rows[k], geometry |-> geometry[k]]]
    /\ pc' = "done"
    /\ UNCHANGED <<call, args, i, rows, geometry, flattened, polygon_local, exc>>

(***************************************************************************)
(* The arguments the calls are made with.                                  *)
(***************************************************************************)
\* 2x2 squares: (0,0) and (1,1) overlap in one cell (union area 7); (0,0) and (2,0)
\* share an edge; (1,1) and (3,3) touch in a corner; (5,0) is apart from all.
Shapes == {Square(0, 0), Square(1, 1), Square(2, 0), Square(3, 3), Square(5, 0)}

OtherKinds == {"Point", "LineString", "GeometryCollection"}

PolygonInputs == {Polygon(s, cw) : s \in Shapes, cw \in BOOLEAN}

MultiPolygonInputs ==
    {MultiPolygon([k \in DOMAIN s |-> Polygon(s[k], FALSE)]) :
        s \in UNION {InjectiveSeqs(Shapes, n) : n \in 1..MaxParts}}

GeomInputs ==
    PolygonInputs \cup MultiPolygonInputs \cup {OtherGeometry(k) : k \in OtherKinds}

\* The vector collections flatten_polygons is called with: up to MaxRows rows,
\* each with a group key, an attribute that tells the rows apart, and a geometry.
GroupKeySet == {"k1", "k2"}

FlattenGeoms ==
    {Polygon(Square(0, 0), FALSE), Polygon(Square(1, 1), FALSE),
     Polygon(Square(5, 0), FALSE),
     MultiPolygon(<<Polygon(Square(0, 0), FALSE), Polygon(Square(5, 0), FALSE)>>)}

VectorCollections ==
    UNION {{[k \in 1..n |-> [key |-> ks[k], id |-> k, geometry |-> gs[k]]] :
                ks \in [1..n -> GroupKeySet], gs \in [1..n -> FlattenGeoms]} :
            n \in 1..MaxRows}

\* The polygon strings parse_polygon_str is called with, each built from the
\* tokens it is meant to say: a token is "x y", "x y 0" (a zero z-ordinate) or,
\* malformed, "x" alone; the whole is bare or wrapped in parentheses.  `tokens`
\* is kept beside the string to say what was written.
CoordTexts == {<<"1">>, <<"0">>, <<"-", "1">>, <<"0", ".", "5">>}

WellFormedTokens ==
    {[x |-> x, y |-> y, z |-> z, fields |-> 2] :
        x \in CoordTexts, y \in CoordTexts, z \in {<<>>, <<" ", "0">>}}

MalformedTokens == {[x |-> x, y |-> <<>>, z |-> <<>>, fields |-> 1] : x \in CoordTexts}

TokenText(t) == IF t.fields = 2 THEN t.x \o <<" ">> \o t.y \o t.z ELSE t.x

RECURSIVE JoinTokens(_)
JoinTokens(ts) ==
    IF Len(ts) = 1 THEN TokenText(ts[1])
    ELSE JoinTokens(SubSeq(ts, 1, Len(ts) - 1)) \o <<",", " ">> \o TokenText(ts[Len(ts)])

PolygonStrings ==
    {[polygon_str |-> IF wrapped THEN <<"(">> \o JoinTokens(ts) \o <<")">> ELSE JoinTokens(ts),
      tokens |-> ts] :
        ts \in UNION {[1..n -> WellFormedTokens \cup MalformedTokens] : n \in 1..MaxPoints},
        wrapped \in BOOLEAN}

\* The arguments normalize_polygon is called with.
Ordinates == {0, 1, 2}

FlatLengths == {0, 2, 3, 4}

FlatLists ==
    {[kind |-> "list", of |-> "number", items |-> l] :
        l \in UNION {[1..n -> Ordinates] : n \in FlatLengths}}

TupleLists ==
    {[kind |-> "list", of |-> "tuple", items |-> l] :
        l \in [1..3 -> {<<0, 0>>, <<2, 0>>, <<2, 2>>}]}

StrArguments ==
    {[kind |-> "str", chars |-> ps.polygon_str] :
        ps \in {q \in PolygonStrings : Len(q.tokens) = 1}}

\* The datasets and windows create_tile_polygon is called with; the identity
\* transform and the window (0, 0, 10, 10) are among them.
Transforms ==
    {Affine(a, b, c, 0 - b, e, f) :
        a \in {1, 2}, b \in {0, 1}, c \in {0, 5}, e \in {1, -1}, f \in {0, 5}}

Windows ==
    {[col_off |-> co, row_off |-> ro, width |-> w, height |-> h] :
        co \in {0, 1}, ro \in {0, 3}, w \in {1, 10}, h \in {2, 10}}

\* The collections and directories map_geometry_to_geotiffs is called with.
\* Three 2x2-pixel rasters: "a" over the cells (0..1, 0..1), "abc" beside it over
\* (2..3, 0..1), "b" far away; each may be unreadable.
RasterFiles ==
    {[stem |-> n[1], openable |-> o, width |-> 2, height |-> 2,
      transform |-> Affine(1, 0, n[2], 0, 1, 0)] :
        n \in {<<<<"a">>, 0>>, <<<<"a", "b", "c">>, 2>>, <<<<"b">>, 8>>}, o \in BOOLEAN}

Directories ==
    {fs \in UNION {[1..n -> RasterFiles] : n \in 1..MaxFiles} :
        \A a, b \in DOMAIN fs : a # b => fs[a].stem # fs[b].stem}

VectorGeoms ==
    {Polygon(Square(0, 0), FALSE),
     MultiPolygon(<<Polygon({<<0, 0>>}, FALSE), Polygon({<<1, 1>>}, FALSE)>>),
     None}

VectorFilenames == {<<"a", ".", "t", "i", "f">>, <<"a", "b", ".", "t", "i", "f">>}

MappedCollections ==
    UNION {{[k \in 1..n |-> [filename |-> fn[k], geometry |-> gs[k]]] :
                fn \in [1..n -> VectorFilenames], gs \in [1..n -> VectorGeoms]} :
            n \in 1..MaxVectors}

\* The arguments map_metadata is called with.  The source collection has the
\* columns "image", "cls" and "geometry"; "absent" is no column of it.
SourceColumns == {"image", "cls", "geometry"}

ImageNames == {"x.png", "y.tif"}

SourceRows ==
    {[image |-> im, geometry |-> Polygon(Square(0, 0), FALSE),
      values |-> [c \in SourceColumns |-> IF c = "image" THEN im ELSE c]] :
        im \in ImageNames}

SourceCollections ==
    {[columns |-> SourceColumns, rows |-> rs] :
        rs \in UNION {[1..n -> SourceRows] : n \in 0..MaxVectors}}

PreserveFields ==
    {[type |-> "None", items |-> <<>>, list |-> <<>>],
     [type |-> "dict", items |-> <<<<"label", "cls">>>>, list |-> <<>>],
     [type |-> "dict", items |-> <<<<"label", "absent">>>>, list |-> <<>>],
     [type |-> "list", items |-> <<>>,
      list |-> <<[type |-> "str", name |-> "cls", items |-> <<>>]>>],
     [type |-> "list", items |-> <<>>,
      list |-> <<[type |-> "str", name |-> "absent", items |-> <<>>]>>],
     [type |-> "list", items |-> <<>>,
      list |-> <<[type |-> "str", name |-> "cls", items |-> <<>>],
                 [type |-> "dict", name |-> "", items |-> <<<<"label", "absent">>>>]>>]}

InitLocals ==
    /\ pc = "start"
    /\ i = 0
    /\ rows = <<>>
    /\ geometry = <<>>
    /\ flattened = <<>>
    /\ polygon_local = <<>>
    /\ ret = <<>>
    /\ exc = ""

InitGeomPolygons ==
    /\ call = "get_geom_polygons"
    /\ args \in {[geom |-> g, flatten |-> f] : g \in GeomInputs, f \in BOOLEAN}

InitPolygonBboxes ==
    /\ call = "get_polygon_bboxes"
    /\ args \in {[geom |-> g] : g \in GeomInputs}

InitFlatten ==
    /\ call = "flatten_polygons"
    /\ args \in {[gdf_src |-> g, group_by |-> "key"] : g \in VectorCollections}

InitParsePolygonStr ==
    /\ call = "parse_polygon_str"
    /\ args \in PolygonStrings

InitNormalizePolygon ==
    /\ call = "normalize_polygon"
    /\ \/ args \in {[polygon |-> a] : a \in PolygonInputs}
       \/ args \in {[polygon |-> a] : a \in FlatLists}
       \/ args \in {[polygon |-> a] : a \in TupleLists}
       \/ args \in {[polygon |-> a] : a \in StrArguments}

InitCreateTilePolygon ==
    /\ call = "create_tile_polygon"
    /\ args \in {[src |-> [transform |-> t], tile_window |-> w] :
                    t \in Transforms, w \in Windows}

InitMapGeometry ==
    /\ call = "map_geometry_to_geotiffs"
    /\ args \in {[gdf |-> g, files |-> fs] : g \in MappedCollections, fs \in Directories}

InitMapMetadata ==
    /\ call = "map_metadata"
    /\ args \in {[gdf_src |-> g, disk |-> d, preserve_fields |-> pf] :
                    g \in SourceCollections, d \in SUBSET ImageNames, pf \in PreserveFields}

Init ==
    /\ InitLocals
    /\ \/ InitGeomPolygons
       \/ InitPolygonBboxes
       \/ InitFlatten
       \/ InitParsePolygonStr
       \/ InitNormalizePolygon
       \/ InitCreateTilePolygon
       \/ InitMapGeometry
       \/ InitMapMetadata

Next ==
    \/ GeomPolygonsStart
    \/ GeomPolygonsPart
    \/ GeomPolygonsReturn
    \/ PolygonBboxes
    \/ FlattenStart
    \/ FlattenGroup
    \/ FlattenReturn
    \/ ParsePolygonStr
    \/ NormalizePolygonConvert
    \/ NormalizePolygonReturn
    \/ CreateTilePolygon
    \/ MapGeometryStart
    \/ MapGeometryTile
    \/ MapGeometryOpenFails
    \/ MapGeometryReturn
    \/ MapMetadataStart
    \/ MapMetadataRow
    \/ MapMetadataReturn

Spec == Init /\ [][Next]_vars

(***************************************************************************)
(* Claims.                                                                 *)
(***************************************************************************)
Ended == pc \in {"done", "raised"}

KnownKind(g) == g.kind \in {"Polygon", "MultiPolygon"}

\* The merge the documentation describes, written from its words: parts in input
\* order against an accumulator; the first accumulated shape the candidate
\* overlaps or touches is replaced by the merged shape, otherwise the candidate
\* is appended.
RECURSIVE DocumentedScan(_, _, _)
DocumentedScan(acc, k, p) ==
    IF k > Len(acc) THEN Append(acc, p)
    ELSE IF Overlaps(acc[k], p) \/ SharesEdge(acc[k], p)
    THEN [acc EXCEPT ![k] = Polygon(acc[k].cells \cup p.cells, TRUE)]
    ELSE DocumentedScan(acc, k + 1, p)

Area(g) == Cardinality(g.cells)

RECURSIVE DocumentedMerge(_, _)
DocumentedMerge(parts, n) ==
    IF n = 0 THEN <<>>
    ELSE DocumentedScan(DocumentedMerge(parts, n - 1), 1, normalize(parts[n]))

\* C4: get_geom_polygons with flatten=true on a MultiPolygon returns the greedy
\* first-match merge of its parts: a candidate that overlaps or touches an
\* accumulated shape replaces the first such entry with the merged shape, any
\* other candidate is appended; so the two 2x2 squares offset by (1,1) come back
\* as one polygon of area 7.
C4_FlattenMergesOverlapping ==
    (call = "get_geom_polygons" /\ Ended
        /\ args.geom.kind = "MultiPolygon" /\ args.flatten)
    => /\ pc = "done"
       /\ Len(ret) = Len(DocumentedMerge(args.geom.geoms, Len(args.geom.geoms)))
       /\ \A k \in DOMAIN ret :
            equals(ret[k], DocumentedMerge(args.geom.geoms, Len(args.geom.geoms))[k])
       /\ args.geom.geoms = <<Polygon(Square(0, 0), FALSE), Polygon(Square(1, 1), FALSE)>>
            => (Len(ret) = 1 /\ Area(ret[1]) = 7)

\* C7: a geometry that is neither Polygon nor MultiPolygon makes get_geom_polygons
\* raise (no list returned, for either value of flatten) while get_polygon_bboxes
\* returns the empty list without raising; get_polygon_bboxes returns 1 box for a
\* Polygon and k boxes for a MultiPolygon of k parts.
C7_UnknownKindAsymmetry ==
    /\ (call = "get_geom_polygons" /\ pc # "start" /\ ~KnownKind(args.geom))
        => (pc = "raised" /\ exc = "ValueError" /\ ret = <<>>)
    /\ (call = "get_polygon_bboxes" /\ pc # "start")
        => /\ pc = "done"
           /\ exc = ""
           /\ ~KnownKind(args.geom) => ret = <<>>
           /\ args.geom.kind = "Polygon" => Len(ret) = 1
           /\ args.geom.kind = "MultiPolygon" => Len(ret) = Len(args.geom.geoms)

C7_Witness ==
    /\ call = "get_polygon_bboxes"
    /\ pc = "done"
    /\ ~KnownKind(args.geom)
    /\ ret = <<>>

(***************************************************************************)
(* flatten_polygons: what a group is expected to contribute.               *)
(***************************************************************************)
GroupOf(key) == GroupMembers(args.gdf_src, key)

\* The simple polygon parts of the union of a group's geometries.
GroupParts(key) ==
    Components(UNION {CellsOf(GroupOf(key)[k].geometry) : k \in DOMAIN GroupOf(key)})

\* The output rows of a group (the group key is one of the template attributes).
OutputOf(key) == SelectSeq(ret, LAMBDA r : r.attrs.key = key)

KeyPosition(key) == CHOOSE k \in DOMAIN GroupKeys(args.gdf_src) : GroupKeys(args.gdf_src)[k] = key

\* C1: a group whose union is a MultiPolygon of m parts contributes exactly m
\* rows, one per part: each row's geometry is one simple polygon part, every part
\* has its row, and the row's bbox is the bounding box of that same part.
C1_OneRowPerPart ==
    (call = "flatten_polygons" /\ pc = "done")
    => \A key \in Range(GroupKeys(args.gdf_src)) :
        Cardinality(GroupParts(key)) > 1
        => /\ Len(OutputOf(key)) = Cardinality(GroupParts(key))
           /\ \A k \in DOMAIN OutputOf(key) :
                /\ OutputOf(key)[k].geometry.kind = "Polygon"
                /\ OutputOf(key)[k].geometry.cells \in GroupParts(key)
                /\ equals(OutputOf(key)[k].bbox, box(bounds(OutputOf(key)[k].geometry)))
           /\ \A part \in GroupParts(key) :
                \E k \in DOMAIN OutputOf(key) : CellsOf(OutputOf(key)[k].geometry) = part

\* C10: the call is defined for every group (also when the union has more parts
\* than the group has members); a multi-part group's rows carry the attributes of
\* its first m members, one member per part; a single-part group's rows carry the
\* attributes of its first member; groups come out in order of first encounter.
C10_TemplateRows ==
    (call = "flatten_polygons" /\ Ended)
    => /\ pc = "done"
       /\ \A key \in Range(GroupKeys(args.gdf_src)) :
            LET m == Cardinality(GroupParts(key))
            IN IF m > 1
               THEN {OutputOf(key)[k].attrs : k \in DOMAIN OutputOf(key)}
                        = {TemplateRow(GroupOf(key), j - 1) : j \in 1..m}
               ELSE \A k \in DOMAIN OutputOf(key) :
                        OutputOf(key)[k].attrs = TemplateRow(GroupOf(key), 0)
       /\ \A a, b \in DOMAIN ret :
            a < b => KeyPosition(ret[a].attrs.key) <= KeyPosition(ret[b].attrs.key)

\* C6: a well-formed polygon string of n tokens parses to exactly the n pairs of
\* the numbers written in it (negative ones and ones whose text begins with 0
\* included), and the call fails exactly when some token is not two numeric
\* fields.
C6_ParsesWrittenPairs ==
    (call = "parse_polygon_str" /\ Ended)
    => IF \A k \in DOMAIN args.tokens : args.tokens[k].fields = 2
       THEN /\ pc = "done"
            /\ ret = [k \in DOMAIN args.tokens |->
                        <<float(args.tokens[k].x), float(args.tokens[k].y)>>]
       ELSE pc = "raised"

\* C5: normalize_polygon turns an even-length flat list [x0, y0, ..., x(n-1), y(n-1)]
\* into exactly the n points (x0, y0), ..., (x(n-1), y(n-1)): consecutive
\* non-overlapping pairs, and no pair (y_i, x_(i+1)).
C5_FlatListPairedByTwo ==
    (/\ call = "normalize_polygon"
     /\ pc # "start"
     /\ args.polygon.kind = "list"
     /\ args.polygon.of = "number"
     /\ Len(args.polygon.items) > 0
     /\ Len(args.polygon.items) % 2 = 0)
    => /\ Len(polygon_local) = Len(args.polygon.items) \div 2
       /\ \A k \in DOMAIN polygon_local :
            polygon_local[k] = <<args.polygon.items[2 * k - 1], args.polygon.items[2 * k]>>

\* The ground position of the pixel corner (x, y) of the window, taken through the
\* dataset transform at the corner's position in the dataset.
WindowCorner(x, y) ==
    AffineApply(args.src.transform,
                <<args.tile_window.col_off + x, args.tile_window.row_off + y>>)

\* C8: create_tile_polygon returns exactly the ring T(0,0), T(w,0), T(w,h),
\* T(0,h), T(0,0), in that order, T being the dataset transform shifted to the
\* window's offset; for the identity transform and the window (0, 0, 10, 10) the
\* corners are (0,0), (10,0), (10,10), (0,10).
C8_TileRingExact ==
    (call = "create_tile_polygon" /\ pc = "done")
    => /\ Len(ret) = 1
       /\ ret[1].ring =
            <<WindowCorner(0, 0),
              WindowCorner(args.tile_window.width, 0),
              WindowCorner(args.tile_window.width, args.tile_window.height),
              WindowCorner(0, args.tile_window.height),
              WindowCorner(0, 0)>>
       /\ (/\ args.src.transform = Affine(1, 0, 0, 0, 1, 0)
           /\ args.tile_window = [col_off |-> 0, row_off |-> 0, width |-> 10, height |-> 10])
          => ret[1].ring = <<<<0, 0>>, <<10, 0>>, <<10, 10>>, <<0, 10>>, <<0, 0>>>>

C8_Witness ==
    /\ call = "create_tile_polygon"
    /\ pc = "done"
    /\ args.src.transform = Affine(1, 0, 0, 0, 1, 0)
    /\ args.tile_window = [col_off |-> 0, row_off |-> 0, width |-> 10, height |-> 10]
    /\ ret[1].ring = <<<<0, 0>>, <<10, 0>>, <<10, 10>>, <<0, 10>>, <<0, 0>>>>

(***************************************************************************)
(* map_geometry_to_geotiffs and map_metadata.                              *)
(***************************************************************************)
Surviving == image_paths(args.files, args.gdf)

\* The rows of the returned collection that refer to a file.
RowsOfTile(f) == SelectSeq(ret, LAMBDA r : r.row.path = TileRow(f).path)

Footprint(f) ==
    RingCells(create_tile_polygon(
        f, [col_off |-> 0, row_off |-> 0, width |-> f.width, height |-> f.height]).ring)

NoRecordIntersects(f) ==
    \A k \in DOMAIN args.gdf : ~intersects(args.gdf[k].geometry, Footprint(f))

\* C2: the collection map_geometry_to_geotiffs returns (after explode and
\* drop_duplicates) has at least one row for each raster that survived the stem
\* pre-filter; a raster no record intersects has one row, with an empty geometry.
C2_EveryTileHasARow ==
    (call = "map_geometry_to_geotiffs" /\ pc = "done")
    => \A k \in DOMAIN Surviving :
        /\ Len(RowsOfTile(Surviving[k])) >= 1
        /\ NoRecordIntersects(Surviving[k])
            => /\ Len(RowsOfTile(Surviving[k])) = 1
               /\ RowsOfTile(Surviving[k])[1].geometry = Polygon({}, TRUE)

C2_Witness ==
    /\ call = "map_geometry_to_geotiffs"
    /\ pc = "done"
    /\ Len(Surviving) = 2
    /\ NoRecordIntersects(Surviving[2])
    /\ ~NoRecordIntersects(Surviving[1])
    /\ Len(RowsOfTile(Surviving[1])) >= 2
    /\ Len(RowsOfTile(Surviving[2])) = 1

\* C3: a surviving raster that cannot be opened is skipped: the call does not end
\* with the open error, and every raster that can be opened still has its rows in
\* the returned collection.
C3_OpenFailureSkipsFile ==
    (call = "map_geometry_to_geotiffs" /\ Ended)
    => /\ pc = "done"
       /\ \A k \in DOMAIN Surviving :
            Surviving[k].openable => Len(RowsOfTile(Surviving[k])) >= 1

\* C9: whenever preserve_fields names a source column the collection does not
\* have, map_metadata raises KeyError, whatever the rows and whatever files exist.
C9_AbsentColumnRaises ==
    (/\ call = "map_metadata"
     /\ Ended
     /\ missing_column(field_map(args.preserve_fields), args.gdf_src.columns))
    => (pc = "raised" /\ exc = "KeyError")

\* C11: at every point of map_metadata's loop, and in what it returns, the
\* accumulated rows hold at most one row per distinct image path: a source row
\* whose path is the path of an already emitted row adds no row.
C11_OneRowPerPath ==
    (call = "map_metadata")
    => \A a, b \in DOMAIN rows :
          rows[a].path.value = rows[b].path.value => a = b

====
